---- MODULE Spec2Model ----
(***************************************************************************)
(* Connection multiplexing and request/response correlation core of the   *)
(* HuskyAI reverse proxy: WebSocketManager (connection, receive loop,     *)
(* registry, router), BaseManager / RequestManager (unary path),          *)
(* StreamManager (streaming path) and AuthenticationManager.              *)
(*                                                                         *)
(* The program runs on one asyncio event loop: a task runs without        *)
(* interruption from one await that suspends to the next.  Every action   *)
(* below is one such segment of one task.                                 *)
(***************************************************************************)
EXTENDS Integers, Sequences, FiniteSets, TLC

\* ------------------------------------------------------------- bounds
\* Sockets the upstream accepts at the same time (socket identities).
MaxSockets == 2
\* Frames the upstream sends for one correlation id that reach its channel.
MaxFrames == 3
\* Frames the upstream sends that reach some channel, over all ids.
MaxTotal == 3

\* ---------------------------------------------------- program constants
max_retries == 5
\* register_listener creates its queues with asyncio.Queue(): maxsize 0.
maxsize == 0

\* ------------------------------------------------------------ clients
\* One caller of RequestManager.handle_request, one of
\* StreamManager.handle_stream, one of authenticate_wallet.  Each request
\* has its own uuid4 correlation id, here the caller's name.
Unary == {"u1"}
Streams == {"s1"}
Auths == {"a1"}
Ids == Unary \cup Streams \cup Auths
UnknownId == "zz"

None == "None"
NoSock == 0
Socks == 1..MaxSockets

\* ------------------------------------------------------------- frames
\* An inbound frame as the receive loop gets it.  json = FALSE is a text
\* json.loads rejects; requestId = None is a JSON object without requestId;
\* code = 0 and tokens_burned = 0 stand for an absent key.
Frame(rid, code, response, tokens, message, chunk, isEnd, json) ==
    [requestId |-> rid, code |-> code, response |-> response,
     tokens_burned |-> tokens, message |-> message, chunk |-> chunk,
     isStreamEnd |-> isEnd, json |-> json]

OkFrame(rid, r, t) == Frame(rid, 200, r, t, None, None, FALSE, TRUE)
ErrFrame(rid, m) == Frame(rid, 500, None, 0, m, None, FALSE, TRUE)
ChunkFrame(rid, c) == Frame(rid, 0, None, 0, None, c, FALSE, TRUE)
EndFrame(rid) == Frame(rid, 0, None, 0, None, None, TRUE, TRUE)
BadJson == Frame(None, 0, None, 0, None, None, FALSE, FALSE)
NoIdFrame == Frame(None, 200, "hi", 3, None, None, FALSE, TRUE)
\* No frame: the value of a wait that timed out.
NoFrame == Frame("no frame", 0, None, 0, None, None, FALSE, FALSE)

Responses == {"hi"}
TokenCounts == {3}
Messages == {"bad"}
Chunks == {"Hel", "lo"}

UnaryFrames(rid) ==
    {OkFrame(rid, r, t) : r \in Responses, t \in TokenCounts}
        \cup {ErrFrame(rid, m) : m \in Messages}
StreamFrames(rid) ==
    {ChunkFrame(rid, c) : c \in Chunks} \cup {EndFrame(rid)}
        \cup {ErrFrame(rid, m) : m \in Messages}

\* What the upstream may send: the protocol's frames for each kind of
\* request, in any order and at any time, frames of an id nobody holds, and
\* malformed frames.
Frames ==
    UNION {UnaryFrames(rid) : rid \in Unary \cup Auths \cup {UnknownId}}
        \cup UNION {StreamFrames(rid) : rid \in Streams}
        \cup {BadJson, NoIdFrame}

VARIABLES
    connection,     \* WebSocketManager.connection: NoSock or a socket
    running,        \* WebSocketManager.running
    task,           \* WebSocketManager.task is set
    current_retry,  \* WebSocketManager.current_retry
    listeners,      \* WebSocketManager.listeners: id -> queue object or None
    chan,           \* contents of the asyncio.Queue objects, by object
    openSocks,      \* sockets opened and not yet closed
    lpc, lsock,     \* the _listen task: position, socket it reads or closes
    life, lifesock, \* lifespan(): position, socket it closes
    pc, psock,      \* callers: position, socket written or closed
    queues,         \* BaseManager.queues of RequestManager and StreamManager
                    \* (their keys never meet: every id is a fresh uuid4), and
                    \* the local response_queue of authenticate_wallet
    got,            \* the frame queue.get() returned to the caller
    result,         \* what the handler returned or raised
    out,            \* SSE events generate_stream yielded
    sendCalled,     \* ids whose frame has been handed to send()
    registered,     \* ids register_listener has created a queue for
    missed,         \* ids with a frame dropped for lack of a registration
                    \* while connection.send() of their request was under
                    \* way and no registration had been made
    delivered,      \* every frame put on each queue object, in order
    cancelled,      \* ids whose handler was cancelled while it waited
    call,           \* the last direct call of a registry operation: its
                    \* name, its argument and what it returned
    consumed,       \* every frame queue.get() returned to each caller
    waited,         \* what wait_for_response returned or raised
    listen_tasks,   \* the _listen tasks created so far
    sendret         \* each caller's send(): whether the manager was
                    \* disconnected when it was called, the connect() calls
                    \* it made, how it ended and what it returned

vars == <<connection, running, task, current_retry, listeners, chan,
          openSocks, lpc, lsock, life, lifesock, pc, psock, queues, got,
          result, out, sendCalled, registered, missed, delivered,
          cancelled, call, consumed, waited, sendret, listen_tasks>>


\* ------------------------------------------------- WebSocketManager
\* WebSocketManager.stream_queues is created empty and never written.
stream_queues == [r \in {} |-> None]

\* register_listener: the existing queue of the id, or a new queue object
\* (named after the id that created it).
RegisterListener(L, rid) ==
    IF L[rid] # None THEN L ELSE [L EXCEPT ![rid] = rid]

RegisterChanAlwaysNew(L, C, rid) == [C EXCEPT ![rid] = <<>>]

\* The queue objects after register_listener: a new asyncio.Queue is empty.
RegisterChan(L, C, rid) ==
    IF L[rid] # None THEN C ELSE [C EXCEPT ![rid] = <<>>]

UnregisterListenerClearsAll(L, rid) == [r \in DOMAIN L |-> None]

\* unregister_listener: delete the entry if present.
UnregisterListener(L, rid) ==
    IF rid \in DOMAIN L /\ L[rid] # None THEN [L EXCEPT ![rid] = None] ELSE L

LookupQueueCreates(L, rid) == IF rid \in DOMAIN L THEN rid ELSE None

LookupQueueAnyRegistered(L, rid) ==
    IF \E r \in DOMAIN L : L[r] # None
      THEN L[CHOOSE r \in DOMAIN L : L[r] # None]
      ELSE None

\* _route_message, the lookup: listeners.get(id), then stream_queues.get(id).
LookupQueue(L, rid) ==
    IF rid \in DOMAIN L /\ L[rid] # None THEN L[rid]
    ELSE IF rid \in DOMAIN stream_queues THEN stream_queues[rid]
    ELSE None

\* asyncio.Queue.full(): never, for maxsize 0.
QueueFull(q) == maxsize > 0 /\ Len(q) >= maxsize

QueueGetNewest(q) == q[Len(q)]

\* asyncio.Queue.get() on a queue that is not empty: the oldest message.
QueueGet(q) == Head(q)

RouteDropsIgnoresJson(L, f) ==
    f.requestId = None \/ LookupQueue(L, f.requestId) = None

\* _route_message returns before the put: undecodable JSON, no requestId,
\* or no queue for the id.
RouteDrops(L, f) ==
    \/ ~f.json
    \/ f.requestId = None
    \/ LookupQueue(L, f.requestId) = None

\* _route_message, put_nowait raises QueueFull: log and return.
RoutePutFails(L, C, f) ==
    IF RouteDrops(L, f) THEN FALSE
    ELSE QueueFull(C[LookupQueue(L, f.requestId)])

\* _route_message, the queues after it: put_nowait on the queue found.
RouteChan(L, C, f) ==
    IF RouteDrops(L, f) \/ RoutePutFails(L, C, f) THEN C
    ELSE [C EXCEPT ![LookupQueue(L, f.requestId)] = Append(@, f)]

RouteListenersKeepsEntry(L, C, f) == L

\* _route_message, the registry after it: a delivered stream-end frame
\* unregisters its id.
RouteListeners(L, C, f) ==
    IF RouteDrops(L, f) \/ RoutePutFails(L, C, f) \/ ~f.isStreamEnd THEN L
    ELSE UnregisterListener(L, f.requestId)

\* Socket identities in use by some reference of the program.
Referenced ==
    {connection, lsock, lifesock} \cup {psock[p] : p \in Ids}

FreeSocks == {s \in Socks : s \notin openSocks /\ s \notin Referenced}

\* The socket object websockets.connect returns.
NewSock == CHOOSE s \in FreeSocks : \A t \in FreeSocks : s <= t

ConnectOkKeepsRetry ==
    /\ FreeSocks # {}
    /\ openSocks' = openSocks \cup {NewSock}
    /\ connection' = NewSock
    /\ UNCHANGED current_retry

\* connect(), handshake accepted: a new socket, stored in self.connection,
\* and the retry counter reset.
ConnectOk ==
    /\ FreeSocks # {}
    /\ openSocks' = openSocks \cup {NewSock}
    /\ connection' = NewSock
    /\ current_retry' = 0

\* connect(), handshake failed: every exception is caught, False returned.
ConnectFail ==
    UNCHANGED <<openSocks, connection, current_retry>>

\* The top of the loop of _listen after a continue: the while test, the
\* connection test, and the call that suspends next.
ListenTopPcIgnoresRunning(run, conn) ==
    IF conn = NoSock THEN "connecting" ELSE "recv"

ListenTopPc(run, conn) ==
    IF ~run THEN "stopped" ELSE IF conn = NoSock THEN "connecting" ELSE "recv"

ListenTopSock(run, conn) ==
    IF run /\ conn # NoSock THEN conn ELSE NoSock

ListenResume(run, conn) ==
    /\ lpc' = ListenTopPc(run, conn)
    /\ lsock' = ListenTopSock(run, conn)
    /\ running' = run

\* SSE events of generate_stream.
ChunkEvent(f) ==
    [event |-> "chunk", content |-> IF f.chunk = None THEN "" ELSE f.chunk]
DoneEvent == [event |-> "[DONE]", content |-> ""]
TimeoutEvent == [event |-> "[TIMEOUT]", content |-> ""]

\* Frames put so far on the queue object q.
Delivered(q) == Len(delivered[q])

RECURSIVE DeliveredAll(_)
DeliveredAll(P) ==
    IF P = {} THEN 0
    ELSE LET p == CHOOSE x \in P : TRUE IN Delivered(p) + DeliveredAll(P \ {p})

\* ------------------------------------------------------- the _listen task
\* First run of the task created by start_listening.
ListenStart ==
    /\ lpc = "start"
    /\ ListenResume(running, connection)
    /\ UNCHANGED <<connection, task, current_retry, listeners, chan,
                   openSocks, life, lifesock, pc, psock, queues, got, result, out, sendCalled, registered, missed,
                   delivered,
                   cancelled, call, consumed, waited,
                   sendret, listen_tasks>>

\* connect() inside the loop succeeded: go on to recv().
ListenConnectOk ==
    /\ lpc = "connecting"
    /\ ConnectOk
    /\ lpc' = "recv"
    /\ lsock' = NewSock
    /\ UNCHANGED <<running, task, listeners, chan, life, lifesock, pc, psock,
                   queues, got, result, out,
                   sendCalled, registered, missed,
                   delivered,
                   cancelled, call, consumed, waited,
                   sendret, listen_tasks>>

\* connect() inside the loop failed: log, sleep(reconnect_delay).
ListenConnectFail ==
    /\ lpc = "connecting"
    /\ ConnectFail
    /\ lpc' = "sleep"
    /\ UNCHANGED <<running, task, listeners, chan, lsock, life, lifesock, pc,
                   psock, queues, got, result, out,
                   sendCalled, registered, missed,
                   delivered,
                   cancelled, call, consumed, waited,
                   sendret, listen_tasks>>

\* sleep(reconnect_delay) is over: continue.
ListenSleepDone ==
    /\ lpc = "sleep"
    /\ ListenResume(running, connection)
    /\ UNCHANGED <<connection, task, current_retry, listeners, chan,
                   openSocks, life, lifesock, pc, psock, queues, got, result, out, sendCalled, registered, missed,
                   delivered,
                   cancelled, call, consumed, waited,
                   sendret, listen_tasks>>

\* recv() returned a frame: route it, reset the retry counter, loop.
ListenRecv ==
    /\ lpc = "recv"
    /\ lsock \in openSocks
    /\ \E f \in Frames :
        /\ IF RouteDrops(listeners, f) THEN TRUE
           ELSE /\ Delivered(LookupQueue(listeners, f.requestId)) < MaxFrames
                /\ DeliveredAll(Ids) < MaxTotal
        /\ chan' = RouteChan(listeners, chan, f)
        /\ delivered' =
              IF RoutePutFails(listeners, chan, f) THEN delivered
              ELSE RouteChan(listeners, delivered, f)
        /\ listeners' = RouteListeners(listeners, chan, f)
        /\ missed' =
              IF /\ f.json
                 /\ f.requestId \in Ids
                 /\ LookupQueue(listeners, f.requestId) = None
                 /\ f.requestId \in sendCalled
                 /\ f.requestId \notin registered
                 /\ pc[f.requestId] = "s_write"
              THEN missed \cup {f.requestId} ELSE missed
    /\ current_retry' = 0
    /\ ListenResume(running, connection)
    /\ UNCHANGED <<connection, task, openSocks, life, lifesock, pc, psock,
                   queues, got, result, out, sendCalled,
                   registered, cancelled, call, consumed, waited,
                   sendret, listen_tasks>>

\* recv() raised ConnectionClosed: close(), which suspends in
\* connection.close() when a connection is stored; otherwise close() ends
\* at once with running = False and the loop test fails.
ListenRecvClosed ==
    /\ lpc = "recv"
    /\ lsock \notin openSocks
    /\ IF connection # NoSock
         THEN /\ lpc' = "closing"
              /\ lsock' = connection
              /\ UNCHANGED running
         ELSE ListenResume(FALSE, NoSock)
    /\ UNCHANGED <<connection, task, current_retry, listeners, chan,
                   openSocks, life, lifesock, pc, psock, queues, got, result, out, sendCalled, registered, missed,
                   delivered,
                   cancelled, call, consumed, waited,
                   sendret, listen_tasks>>

ListenCloseDoneDrainsRegistry ==
    /\ lpc = "closing"
    /\ openSocks' = openSocks \ {lsock}
    /\ connection' = NoSock
    /\ listeners' = [r \in Ids |-> None]
    /\ ListenResume(FALSE, NoSock)
    /\ UNCHANGED <<task, current_retry, chan, life, lifesock, pc,
                   psock, queues, got, result, out,
                   sendCalled, registered, missed,
                   delivered,
                   cancelled, call, consumed, waited,
                   sendret, listen_tasks>>

\* close() called by the loop finishes: running = False, connection = None;
\* then continue, and the while test ends the loop.
ListenCloseDone ==
    /\ lpc = "closing"
    /\ openSocks' = openSocks \ {lsock}
    /\ connection' = NoSock
    /\ ListenResume(FALSE, NoSock)
    /\ UNCHANGED <<task, current_retry, listeners, chan, life, lifesock, pc,
                   psock, queues, got, result, out,
                   sendCalled, registered, missed,
                   delivered,
                   cancelled, call, consumed, waited,
                   sendret, listen_tasks>>

\* recv() raised another exception: count it; stop at max_retries,
\* otherwise sleep and continue.
ListenRecvErrorNeverGivesUp ==
    /\ lpc = "recv"
    /\ lsock \in openSocks
    /\ current_retry' = current_retry + 1
    /\ lpc' = "sleep" /\ UNCHANGED running
    /\ lsock' = NoSock
    /\ UNCHANGED <<connection, task, listeners, chan, openSocks, life,
                   lifesock, pc, psock, queues, got, result,
                   out, sendCalled, registered, missed,
                   delivered,
                   cancelled, call, consumed, waited,
                   sendret, listen_tasks>>

ListenRecvError ==
    /\ lpc = "recv"
    /\ lsock \in openSocks
    /\ current_retry' = current_retry + 1
    /\ IF current_retry + 1 >= max_retries
         THEN lpc' = "stopped" /\ running' = FALSE
         ELSE lpc' = "sleep" /\ UNCHANGED running
    /\ lsock' = NoSock
    /\ UNCHANGED <<connection, task, listeners, chan, openSocks, life,
                   lifesock, pc, psock, queues, got, result,
                   out, sendCalled, registered, missed,
                   delivered,
                   cancelled, call, consumed, waited,
                   sendret, listen_tasks>>


\* ----------------------------------------------------------- lifespan
StartListeningAlways ==
    /\ running' = TRUE
    /\ task' = TRUE
    /\ lpc' = "start"
    /\ listen_tasks' = listen_tasks + 1

\* start_listening: create the _listen task once.
StartListening ==
    IF ~task
      THEN /\ running' = TRUE
           /\ task' = TRUE
           /\ lpc' = "start"
           /\ listen_tasks' = listen_tasks + 1
      ELSE UNCHANGED <<running, task, lpc, listen_tasks>>

\* Startup: connect(), whatever it returns, then start_listening().
LifespanStartOk ==
    /\ life = "init"
    /\ ConnectOk
    /\ StartListening
    /\ life' = "serving"
    /\ UNCHANGED <<listeners, chan, lsock, lifesock, pc, psock, queues, got,
                   result, out, sendCalled, registered, missed,
                   delivered,
                   cancelled, call, consumed, waited,
                   sendret>>

LifespanStartFail ==
    /\ life = "init"
    /\ ConnectFail
    /\ StartListening
    /\ life' = "serving"
    /\ UNCHANGED <<listeners, chan, lsock, lifesock, pc, psock, queues, got,
                   result, out, sendCalled, registered, missed,
                   delivered,
                   cancelled, call, consumed, waited,
                   sendret>>

\* Shutdown, once no request is being served: close().
LifespanShutdown ==
    /\ life = "serving"
    /\ \A p \in Ids : pc[p] \in {"idle", "done"}
    /\ IF connection # NoSock
         THEN /\ life' = "closing"
              /\ lifesock' = connection
              /\ UNCHANGED running
         ELSE /\ life' = "down"
              /\ running' = FALSE
              /\ UNCHANGED lifesock
    /\ UNCHANGED <<connection, task, current_retry, listeners, chan,
                   openSocks, lpc, lsock, pc, psock, queues, got, result,
                   out, sendCalled, registered, missed,
                   delivered,
                   cancelled, call, consumed, waited,
                   sendret, listen_tasks>>

LifespanCloseDone ==
    /\ life = "closing"
    /\ openSocks' = openSocks \ {lifesock}
    /\ connection' = NoSock
    /\ running' = FALSE
    /\ lifesock' = NoSock
    /\ life' = "down"
    /\ UNCHANGED <<task, current_retry, listeners, chan, lpc, lsock, pc,
                   psock, queues, got, result, out, sendCalled, registered,
                   missed,
                   delivered,
                   cancelled, call, consumed, waited,
                   sendret, listen_tasks>>

\* ------------------------------------------------------------ upstream
\* The upstream, or the network, closes a socket.
PeerClose ==
    /\ \E s \in openSocks : openSocks' = openSocks \ {s}
    /\ UNCHANGED <<connection, running, task, current_retry, listeners, chan,
                   lpc, lsock, life, lifesock, pc, psock, queues, got,
                   result, out, sendCalled, registered, missed,
                   delivered,
                   cancelled, call, consumed, waited,
                   sendret, listen_tasks>>

\* ---------------------------------------------------------------- send
\* send() has not been called.
NoSend == [disc |-> FALSE, connects |-> 0, why |-> "none", ret |-> None]

SendResultAlwaysTrue(why) == "True"

\* What send() returns: True after the write, False after a failed connect()
\* and from the except clause.
SendResult(why) == IF why = "written" THEN "True" ELSE "False"

\* send() returns.
SendEnds(p, why) ==
    sendret' = [sendret EXCEPT ![p] =
                   [@ EXCEPT !.why = why, !.ret = SendResult(why)]]

\* send() up to its first await: connect() when there is no connection or
\* the manager is not running, else connection.send(message).
SendBegin(p) ==
    /\ sendret' = [sendret EXCEPT ![p] =
                      [disc |-> (connection = NoSock \/ ~running),
                       connects |-> 0, why |-> "pending", ret |-> None]]
    /\ IF connection = NoSock \/ ~running
         THEN /\ pc' = [pc EXCEPT ![p] = "s_connect"]
              /\ UNCHANGED psock
         ELSE /\ pc' = [pc EXCEPT ![p] = "s_write"]
              /\ psock' = [psock EXCEPT ![p] = connection]

\* The caller's code from the return of send(), whose result it ignores, to
\* its next await.  process_request: wait_for_response finds its queue and
\* waits.  process_stream: the StreamingResponse is returned and
\* generate_stream finds its queue and pulls.  authenticate_wallet:
\* register_listener, then wait_for(queue.get()).
SendReturnSkipsWait(p, L, C) ==
    /\ pc' = [pc EXCEPT ![p] = IF p \in Streams THEN "bg"
                               ELSE IF p \in Unary THEN "cancel" ELSE "wait"]
    /\ psock' = [psock EXCEPT ![p] = NoSock]
    /\ listeners' = IF p \in Auths THEN RegisterListener(L, p) ELSE L
    /\ chan' = IF p \in Auths THEN RegisterChan(L, C, p) ELSE C
    /\ queues' = IF p \in Auths
                   THEN [queues EXCEPT ![p] = RegisterListener(L, p)[p]]
                   ELSE queues
    /\ registered' = IF p \in Auths THEN registered \cup {p} ELSE registered

SendReturn(p, L, C) ==
    /\ pc' = [pc EXCEPT ![p] = IF p \in Streams THEN "pull" ELSE "wait"]
    /\ psock' = [psock EXCEPT ![p] = NoSock]
    /\ listeners' = IF p \in Auths THEN RegisterListener(L, p) ELSE L
    /\ chan' = IF p \in Auths THEN RegisterChan(L, C, p) ELSE C
    /\ queues' = IF p \in Auths
                   THEN [queues EXCEPT ![p] = RegisterListener(L, p)[p]]
                   ELSE queues
    /\ registered' = IF p \in Auths THEN registered \cup {p} ELSE registered

SendConnectOk(p) ==
    /\ pc[p] = "s_connect"
    /\ ConnectOk
    /\ pc' = [pc EXCEPT ![p] = "s_write"]
    /\ psock' = [psock EXCEPT ![p] = NewSock]
    /\ sendret' = [sendret EXCEPT ![p].connects = @ + 1]
    /\ UNCHANGED <<running, task, listeners, chan, lpc, lsock, life,
                   lifesock, queues, got, result, out, sendCalled,
                   registered, missed,
                   delivered,
                   cancelled, call, consumed, waited, listen_tasks>>

SendConnectFail(p) ==
    /\ pc[p] = "s_connect"
    /\ ConnectFail
    /\ SendReturn(p, listeners, chan)
    /\ sendret' = [sendret EXCEPT ![p] =
                      [@ EXCEPT !.connects = @ + 1, !.why = "connect failed",
                                !.ret = SendResult("connect failed")]]
    /\ UNCHANGED <<running, task, lpc, lsock, life, lifesock, got, result,
                   out, sendCalled, missed,
                   delivered,
                   cancelled, call, consumed, waited, listen_tasks>>

\* connection.send(message) wrote the frame.
SendWriteOk(p) ==
    /\ pc[p] = "s_write"
    /\ psock[p] \in openSocks
    /\ SendReturn(p, listeners, chan)
    /\ SendEnds(p, "written")
    /\ UNCHANGED <<connection, running, task, current_retry, openSocks, lpc,
                   lsock, life, lifesock, got, result, out, sendCalled,
                   missed,
                   delivered,
                   cancelled, call, consumed, waited, listen_tasks>>

\* connection.send(message) raised: close(), then return False.
SendWriteFail(p) ==
    /\ pc[p] = "s_write"
    /\ psock[p] \notin openSocks
    /\ IF connection # NoSock
         THEN /\ pc' = [pc EXCEPT ![p] = "s_close"]
              /\ psock' = [psock EXCEPT ![p] = connection]
              /\ UNCHANGED <<running, listeners, chan, queues, registered,
                             sendret>>
         ELSE /\ running' = FALSE
              /\ SendReturn(p, listeners, chan)
              /\ SendEnds(p, "write failed")
    /\ UNCHANGED <<connection, task, current_retry, openSocks, lpc, lsock,
                   life, lifesock, got, result, out, sendCalled, missed,
                   delivered,
                   cancelled, call, consumed, waited, listen_tasks>>

SendCloseDone(p) ==
    /\ pc[p] = "s_close"
    /\ openSocks' = openSocks \ {psock[p]}
    /\ connection' = NoSock
    /\ running' = FALSE
    /\ SendReturn(p, listeners, chan)
    /\ SendEnds(p, "write failed")
    /\ UNCHANGED <<task, current_retry, lpc, lsock, life, lifesock, got,
                   result, out, sendCalled, missed,
                   delivered,
                   cancelled, call, consumed, waited, listen_tasks>>


\* ------------------------------------------------------------- results
Res(kind, status, text, tokens) ==
    [kind |-> kind, status |-> status, text |-> text, tokens |-> tokens]

NoResult == Res("none", 0, None, 0)

\* The chat.completion body process_request builds from a code-200 frame.
Completion(f) ==
    Res("completion", 200, IF f.response = None THEN "" ELSE f.response,
        f.tokens_burned)

WaitOutcomeAlwaysReturns(f) == Res("return", 200, None, 0)

\* wait_for_response: the value returned, or the HTTPException raised, for
\* the frame the wait got (NoFrame: the timeout task finished first).
WaitOutcome(f) ==
    IF f = NoFrame THEN Res("HTTPException", 408, "Request timeout", 0)
    ELSE IF f.code = 200 THEN Res("return", 200, None, 0)
    ELSE Res("HTTPException", 500,
             IF f.message = None THEN "Unknown error" ELSE f.message, 0)

\* cleanup_request(request_id, background_tasks) in process_request and in
\* handle_request: neither function has a parameter, a local or a global of
\* the name background_tasks, so evaluating the argument raises NameError
\* and cleanup_queue is never scheduled.
CleanupRequestCall == Res("NameError", 0, "background_tasks", 0)

\* process_request after the wait: the completion, or the except clause,
\* whose cleanup_request call raises in place of the exception handled.
ProcessRequestOutcome(f) ==
    IF WaitOutcome(f).kind = "return" THEN Completion(f)
    ELSE IF CleanupRequestCall.kind = "NameError" THEN CleanupRequestCall
    ELSE WaitOutcome(f)

\* handle_request: the finally clause calls cleanup_request, and an
\* exception raised in a finally clause replaces what the try block
\* returned or raised.
HandleRequestOutcome(f) ==
    IF CleanupRequestCall.kind = "NameError" THEN CleanupRequestCall
    ELSE ProcessRequestOutcome(f)

\* chat_completions calls request_manager.handle_request(request_id,
\* completion_request, background_tasks): one argument more than
\* handle_request takes.  The TypeError becomes HTTPException(500).
ChatCompletionsUnaryOutcome == Res("HTTPException", 500, "TypeError", 0)

\* BaseManager.create_queue: register_listener, and keep the queue.
CreateQueue(p) ==
    /\ listeners' = RegisterListener(listeners, p)
    /\ chan' = RegisterChan(listeners, chan, p)
    /\ queues' = [queues EXCEPT ![p] = RegisterListener(listeners, p)[p]]
    /\ registered' = registered \cup {p}

CleanupQueueKeepsListener(p) ==
    /\ UNCHANGED listeners
    /\ queues' = [queues EXCEPT ![p] = None]

\* BaseManager.cleanup_queue: unregister_listener, and drop the queue.
CleanupQueue(p) ==
    /\ listeners' = UnregisterListener(listeners, p)
    /\ queues' = [queues EXCEPT ![p] = None]

\* ---------------------------------------------------------- unary path
\* The unary request as main.py issues it.
UnaryCallFromHttp(u) ==
    /\ life = "serving"
    /\ pc[u] = "idle"
    /\ pc' = [pc EXCEPT ![u] = "done"]
    /\ result' = [result EXCEPT ![u] = ChatCompletionsUnaryOutcome]
    /\ UNCHANGED <<connection, running, task, current_retry, listeners, chan,
                   openSocks, lpc, lsock, life, lifesock, psock, queues, got,
                   out, sendCalled, registered, missed,
                   delivered,
                   cancelled, call, consumed, waited,
                   sendret, listen_tasks>>

\* handle_request(request_id, request) -> process_request: create_request,
\* then send().
UnaryStart(u) ==
    /\ life = "serving"
    /\ pc[u] = "idle"
    /\ CreateQueue(u)
    /\ sendCalled' = sendCalled \cup {u}
    /\ SendBegin(u)
    /\ UNCHANGED <<connection, running, task, current_retry, openSocks, lpc,
                   lsock, life, lifesock, got, result, out, missed,
                   delivered,
                   cancelled, call, consumed, waited, listen_tasks>>

\* wait_for_response: the response task finished first.
UnaryDeliver(u) ==
    /\ pc[u] = "wait"
    /\ chan[queues[u]] # <<>>
    /\ got' = [got EXCEPT ![u] = QueueGet(chan[queues[u]])]
    /\ consumed' = [consumed EXCEPT ![u] = Append(@, got'[u])]
    /\ waited' = [waited EXCEPT ![u] = WaitOutcome(got'[u])]
    /\ chan' = [chan EXCEPT ![queues[u]] = Tail(@)]
    /\ pc' = [pc EXCEPT ![u] = "cancel"]
    /\ UNCHANGED <<connection, running, task, current_retry, listeners,
                   openSocks, lpc, lsock, life, lifesock, psock, queues,
                   result, out, sendCalled, registered, missed,
                   delivered, cancelled, call,
                   sendret, listen_tasks>>

\* wait_for_response: the timeout task finished first, nothing delivered.
UnaryTimeout(u) ==
    /\ pc[u] = "wait"
    /\ chan[queues[u]] = <<>>
    /\ waited' = [waited EXCEPT ![u] = WaitOutcome(NoFrame)]
    /\ pc' = [pc EXCEPT ![u] = "cancel"]
    /\ UNCHANGED <<connection, running, task, current_retry, listeners, chan,
                   openSocks, lpc, lsock, life, lifesock, psock, queues, got,
                   result, out, sendCalled, registered, missed,
                   delivered, cancelled, call, consumed,
                   sendret, listen_tasks>>

\* wait_for_response's finally, after the cancelled task has been awaited:
\* drop self.queues[id]; then the rest of process_request and
\* handle_request.
UnaryFinish(u) ==
    /\ pc[u] = "cancel"
    /\ queues' = [queues EXCEPT ![u] = None]
    /\ result' = [result EXCEPT ![u] = HandleRequestOutcome(got[u])]
    /\ pc' = [pc EXCEPT ![u] = "done"]
    /\ UNCHANGED <<connection, running, task, current_retry, listeners, chan,
                   openSocks, lpc, lsock, life, lifesock, psock, got, out,
                   sendCalled, registered, missed,
                   delivered,
                   cancelled, call, consumed, waited,
                   sendret, listen_tasks>>

\* ------------------------------------------------------ streaming path
\* handle_stream -> process_stream: create_stream, then send().
StreamStart(s) ==
    /\ life = "serving"
    /\ pc[s] = "idle"
    /\ CreateQueue(s)
    /\ sendCalled' = sendCalled \cup {s}
    /\ SendBegin(s)
    /\ UNCHANGED <<connection, running, task, current_retry, openSocks, lpc,
                   lsock, life, lifesock, got, result, out, missed,
                   delivered,
                   cancelled, call, consumed, waited, listen_tasks>>

IsStreamEndNever(data) == FALSE

\* generate_stream's test of a pulled message:
\* "isStreamEnd" in data and data["isStreamEnd"].
IsStreamEnd(data) == data.isStreamEnd

\* generate_stream: queue.get() returned within the idle timeout.
StreamPull(s) ==
    /\ pc[s] = "pull"
    /\ chan[queues[s]] # <<>>
    /\ LET data == QueueGet(chan[queues[s]]) IN
        /\ consumed' = [consumed EXCEPT ![s] = Append(@, data)]
        /\ IF IsStreamEnd(data)
             THEN /\ out' = [out EXCEPT ![s] = Append(@, DoneEvent)]
                  /\ pc' = [pc EXCEPT ![s] = "bg"]
             ELSE /\ out' = [out EXCEPT ![s] = Append(@, ChunkEvent(data))]
                  /\ UNCHANGED pc
    /\ chan' = [chan EXCEPT ![queues[s]] = Tail(@)]
    /\ UNCHANGED <<connection, running, task, current_retry, listeners,
                   openSocks, lpc, lsock, life, lifesock, psock, queues, got,
                   result, sendCalled, registered, missed,
                   delivered, cancelled, call, waited,
                   sendret, listen_tasks>>

StreamTimeoutIgnored(s) ==
    /\ pc[s] = "pull"
    /\ chan[queues[s]] = <<>>
    /\ UNCHANGED vars

\* generate_stream: the idle timeout of a pull elapsed.
StreamTimeout(s) ==
    /\ pc[s] = "pull"
    /\ chan[queues[s]] = <<>>
    /\ out' = [out EXCEPT ![s] = Append(@, TimeoutEvent)]
    /\ pc' = [pc EXCEPT ![s] = "bg"]
    /\ UNCHANGED <<connection, running, task, current_retry, listeners, chan,
                   openSocks, lpc, lsock, life, lifesock, psock, queues, got,
                   result, sendCalled, registered, missed,
                   delivered,
                   cancelled, call, consumed, waited,
                   sendret, listen_tasks>>

\* The background task handle_stream's finally added with cleanup_stream,
\* run once the response body has ended: cleanup_queue (stream_tasks is
\* never written, so there is no task to cancel).
StreamBackgroundCleanup(s) ==
    /\ pc[s] = "bg"
    /\ CleanupQueue(s)
    /\ pc' = [pc EXCEPT ![s] = "done"]
    /\ UNCHANGED <<connection, running, task, current_retry, chan, openSocks,
                   lpc, lsock, life, lifesock, psock, got, result, out,
                   sendCalled, registered, missed,
                   delivered,
                   cancelled, call, consumed, waited,
                   sendret, listen_tasks>>

\* ------------------------------------------------ wallet authentication
\* authenticate_wallet: build the request with a fresh uuid4, send().
AuthStart(a) ==
    /\ life = "serving"
    /\ pc[a] = "idle"
    /\ sendCalled' = sendCalled \cup {a}
    /\ SendBegin(a)
    /\ UNCHANGED <<connection, running, task, current_retry, listeners, chan,
                   openSocks, lpc, lsock, life, lifesock, queues, got,
                   result, out, registered, missed,
                   delivered,
                   cancelled, call, consumed, waited, listen_tasks>>

\* wait_for(response_queue.get()) returned: True for code 200, else False;
\* finally unregister_listener.
AuthDeliver(a) ==
    /\ pc[a] = "wait"
    /\ chan[queues[a]] # <<>>
    /\ LET response == QueueGet(chan[queues[a]]) IN
        /\ got' = [got EXCEPT ![a] = response]
        /\ consumed' = [consumed EXCEPT ![a] = Append(@, response)]
        /\ result' = [result EXCEPT ![a] =
              IF response.code = 200 THEN Res("True", 0, None, 0)
              ELSE Res("False", 0, None, 0)]
    /\ chan' = [chan EXCEPT ![queues[a]] = Tail(@)]
    /\ listeners' = UnregisterListener(listeners, a)
    /\ pc' = [pc EXCEPT ![a] = "done"]
    /\ UNCHANGED <<connection, running, task, current_retry, openSocks, lpc,
                   lsock, life, lifesock, psock, queues, out, sendCalled,
                   registered, missed,
                   delivered, cancelled, call, waited,
                   sendret, listen_tasks>>

AuthTimeoutKeepsListener(a) ==
    /\ pc[a] = "wait"
    /\ chan[queues[a]] = <<>>
    /\ result' = [result EXCEPT ![a] = Res("False", 0, None, 0)]
    /\ listeners' = listeners
    /\ pc' = [pc EXCEPT ![a] = "done"]
    /\ UNCHANGED <<connection, running, task, current_retry, chan, openSocks,
                   lpc, lsock, life, lifesock, psock, queues, got, out,
                   sendCalled, registered, missed,
                   delivered,
                   cancelled, call, consumed, waited,
                   sendret, listen_tasks>>

\* wait_for raised TimeoutError: False; finally unregister_listener.
AuthTimeout(a) ==
    /\ pc[a] = "wait"
    /\ chan[queues[a]] = <<>>
    /\ result' = [result EXCEPT ![a] = Res("False", 0, None, 0)]
    /\ listeners' = UnregisterListener(listeners, a)
    /\ pc' = [pc EXCEPT ![a] = "done"]
    /\ UNCHANGED <<connection, running, task, current_retry, chan, openSocks,
                   lpc, lsock, life, lifesock, psock, queues, got, out,
                   sendCalled, registered, missed,
                   delivered,
                   cancelled, call, consumed, waited,
                   sendret, listen_tasks>>

\* ---------------------------------------------- the registry operations
\* The operations of the registry called directly, in any order and with
\* any id: register_listener (as authenticate_wallet calls it),
\* unregister_listener, _route_message, and BaseManager's create_queue and
\* cleanup_queue.  `call` records the operation, its argument (for
\* _route_message: the requestId of the message and whether the message is
\* JSON), whether the id was registered when it was called, and the value
\* returned; n alternates so that every call is a step.
CallRecord(op, rid, ret) ==
    [op |-> op, rid |-> rid,
     had |-> (rid \in DOMAIN listeners /\ listeners[rid] # None),
     json |-> TRUE, ret |-> ret, n |-> 1 - call.n]

\* A text that is not JSON although it names a request, such as a
\* truncated frame.
BadJsonFor(rid) == Frame(rid, 200, "hi", 3, None, None, FALSE, FALSE)

\* The frames routed when the registry is exercised on its own: one frame
\* an id can get, the stream-end frame, a frame of an unknown id and the
\* malformed frames.
RegistryFrames ==
    {OkFrame(rid, "hi", 3) : rid \in Ids \cup {UnknownId}}
        \cup {EndFrame(rid) : rid \in Streams}
        \cup {BadJsonFor(rid) : rid \in Unary}
        \cup {BadJson, NoIdFrame}

RegisterCall(rid) ==
    /\ listeners' = RegisterListener(listeners, rid)
    /\ chan' = RegisterChan(listeners, chan, rid)
    /\ delivered' = RegisterChan(listeners, delivered, rid)
    /\ registered' = registered \cup {rid}
    /\ call' = CallRecord("register", rid, listeners'[rid])
    /\ UNCHANGED <<connection, running, task, current_retry, openSocks, lpc,
                   lsock, life, lifesock, pc, psock, queues, got, result,
                   out, sendCalled, missed, cancelled, consumed, waited,
                   sendret, listen_tasks>>

CreateQueueCall(rid) ==
    /\ CreateQueue(rid)
    /\ delivered' = RegisterChan(listeners, delivered, rid)
    /\ call' = CallRecord("register", rid, queues'[rid])
    /\ UNCHANGED <<connection, running, task, current_retry, openSocks, lpc,
                   lsock, life, lifesock, pc, psock, got, result, out,
                   sendCalled, missed, cancelled, consumed, waited,
                   sendret, listen_tasks>>

UnregisterCall(rid) ==
    /\ listeners' = UnregisterListener(listeners, rid)
    /\ call' = CallRecord("unregister", rid, None)
    /\ UNCHANGED <<connection, running, task, current_retry, chan, openSocks,
                   lpc, lsock, life, lifesock, pc, psock, queues, got,
                   result, out, sendCalled, registered, missed, delivered,
                   cancelled, consumed, waited,
                   sendret, listen_tasks>>

CleanupQueueCall(rid) ==
    /\ CleanupQueue(rid)
    /\ call' = CallRecord("unregister", rid, None)
    /\ UNCHANGED <<connection, running, task, current_retry, chan, openSocks,
                   lpc, lsock, life, lifesock, pc, psock, got, result, out,
                   sendCalled, registered, missed, delivered, cancelled,
                   consumed, waited,
                   sendret, listen_tasks>>

RouteCall(f) ==
    /\ IF RouteDrops(listeners, f) THEN TRUE
       ELSE /\ Delivered(LookupQueue(listeners, f.requestId)) < MaxFrames
            /\ DeliveredAll(Ids) < MaxTotal
    /\ chan' = RouteChan(listeners, chan, f)
    /\ delivered' =
          IF RoutePutFails(listeners, chan, f) THEN delivered
          ELSE RouteChan(listeners, delivered, f)
    /\ listeners' = RouteListeners(listeners, chan, f)
    /\ call' = [CallRecord("route", f.requestId, None) EXCEPT !.json = f.json]
    /\ UNCHANGED <<connection, running, task, current_retry, openSocks, lpc,
                   lsock, life, lifesock, pc, psock, queues, got, result,
                   out, sendCalled, registered, missed, cancelled, consumed,
                   waited,
                   sendret, listen_tasks>>

\* start_listening called again while the application serves.
StartListeningCall ==
    /\ life = "serving"
    /\ StartListening
    /\ call' = CallRecord("start_listening", None, None)
    /\ UNCHANGED <<connection, current_retry, listeners, chan, openSocks,
                   lsock, life, lifesock, pc, psock, queues, got, result,
                   out, sendCalled, registered, missed, delivered, cancelled,
                   consumed, waited, sendret>>

\* -------------------------------------------------------- cancellation
\* The task running handle_request is cancelled while wait_for_response is
\* suspended in asyncio.wait (line 43).  CancelledError is a BaseException:
\* no `except Exception` clause catches it, and the try/finally that drops
\* self.queues[id] (lines 48-79) has not been entered.  The finally clause
\* of handle_request then calls cleanup_request, which raises.
UnaryCancel(u) ==
    /\ pc[u] = "wait"
    /\ cancelled' = cancelled \cup {u}
    /\ result' = [result EXCEPT ![u] = CleanupRequestCall]
    /\ pc' = [pc EXCEPT ![u] = "done"]
    /\ UNCHANGED <<connection, running, task, current_retry, listeners, chan,
                   openSocks, lpc, lsock, life, lifesock, psock, queues, got,
                   out, sendCalled, registered, missed, delivered, call,
                   consumed, waited,
                   sendret, listen_tasks>>

\* The consumer of the response body goes away while generate_stream is
\* suspended in wait_for(queue.get()): CancelledError passes both
\* `except Exception` clauses and the generator ends without a marker.  The
\* response is over, and the background task added by handle_stream runs.
StreamCancel(s) ==
    /\ pc[s] = "pull"
    /\ cancelled' = cancelled \cup {s}
    /\ pc' = [pc EXCEPT ![s] = "bg"]
    /\ UNCHANGED <<connection, running, task, current_retry, listeners, chan,
                   openSocks, lpc, lsock, life, lifesock, psock, queues, got,
                   result, out, sendCalled, registered, missed, delivered,
                   call, consumed, waited,
                   sendret, listen_tasks>>

\* The task running authenticate_wallet is cancelled at one of its awaits.
\* Inside send() (connect(), the socket write, or close() after a failed
\* write) CancelledError passes every `except Exception` clause: send() does
\* not return, connection and running are left as they are, and no listener
\* has been registered yet; a close() interrupted in connection.close() may
\* or may not have closed the socket.  Inside wait_for(response_queue.get())
\* the finally clause unregisters the listener before CancelledError leaves
\* the function.
AuthCancel(a) ==
    /\ pc[a] \in {"s_connect", "s_write", "s_close", "wait"}
    /\ cancelled' = cancelled \cup {a}
    /\ result' = [result EXCEPT ![a] = Res("CancelledError", 0, None, 0)]
    /\ listeners' = IF pc[a] = "wait" THEN UnregisterListener(listeners, a)
                    ELSE listeners
    /\ sendret' = IF pc[a] = "wait" THEN sendret
                  ELSE [sendret EXCEPT ![a].why = "cancelled"]
    /\ openSocks' \in IF pc[a] = "s_close"
                       THEN {openSocks, openSocks \ {psock[a]}}
                       ELSE {openSocks}
    /\ pc' = [pc EXCEPT ![a] = "done"]
    /\ psock' = [psock EXCEPT ![a] = NoSock]
    /\ UNCHANGED <<connection, running, task, current_retry, chan, lpc, lsock,
                   life, lifesock, queues, got, out, sendCalled, registered,
                   missed, delivered, call, consumed, waited, listen_tasks>>

\* ------------------------------------------------------- specification
\* No registry operation has been called directly.
NoCall ==
    [op |-> "none", rid |-> None, had |-> FALSE, json |-> TRUE, ret |-> None,
     n |-> 0]

Init ==
    /\ connection = NoSock
    /\ running = FALSE
    /\ task = FALSE
    /\ current_retry = 0
    /\ listeners = [r \in Ids |-> None]
    /\ chan = [q \in Ids |-> <<>>]
    /\ openSocks = {}
    /\ lpc = "none"
    /\ lsock = NoSock
    /\ life = "init"
    /\ lifesock = NoSock
    /\ pc = [p \in Ids |-> "idle"]
    /\ psock = [p \in Ids |-> NoSock]
    /\ queues = [p \in Ids |-> None]
    /\ got = [p \in Ids |-> NoFrame]
    /\ result = [p \in Ids |-> NoResult]
    /\ out = [p \in Streams |-> <<>>]
    /\ sendCalled = {}
    /\ registered = {}
    /\ missed = {}
    /\ delivered = [q \in Ids |-> <<>>]
    /\ cancelled = {}
    /\ call = NoCall
    /\ consumed = [p \in Ids |-> <<>>]
    /\ waited = [p \in Unary |-> NoResult]
    /\ sendret = [p \in Ids |-> NoSend]
    /\ listen_tasks = 0

LifespanNext ==
    \/ LifespanStartOk
    \/ LifespanStartFail
    \/ LifespanShutdown
    \/ LifespanCloseDone

ListenNext ==
    \/ ListenStart
    \/ ListenConnectOk
    \/ ListenConnectFail
    \/ ListenSleepDone
    \/ ListenRecv
    \/ ListenRecvClosed
    \/ ListenCloseDone
    \/ ListenRecvError

SendNext(P) ==
    \/ \E p \in P : SendConnectOk(p)
    \/ \E p \in P : SendConnectFail(p)
    \/ \E p \in P : SendWriteOk(p)
    \/ \E p \in P : SendWriteFail(p)
    \/ \E p \in P : SendCloseDone(p)

UnaryNext ==
    \/ \E u \in Unary : UnaryCallFromHttp(u)
    \/ \E u \in Unary : UnaryStart(u)
    \/ \E u \in Unary : UnaryDeliver(u)
    \/ \E u \in Unary : UnaryTimeout(u)
    \/ \E u \in Unary : UnaryFinish(u)

StreamNext ==
    \/ \E s \in Streams : StreamStart(s)
    \/ \E s \in Streams : StreamPull(s)
    \/ \E s \in Streams : StreamTimeout(s)
    \/ \E s \in Streams : StreamBackgroundCleanup(s)

AuthNext ==
    \/ \E a \in Auths : AuthStart(a)
    \/ \E a \in Auths : AuthDeliver(a)
    \/ \E a \in Auths : AuthTimeout(a)

CancelNext ==
    \/ \E u \in Unary : UnaryCancel(u)
    \/ \E s \in Streams : StreamCancel(s)

Next ==
    \/ LifespanNext
    \/ PeerClose
    \/ ListenNext
    \/ SendNext(Ids)
    \/ UnaryNext
    \/ StreamNext
    \/ AuthNext
    \/ CancelNext

Spec == Init /\ [][Next]_vars

\* One kind of caller at a time, with every behaviour of the upstream.
NextUnary ==
    LifespanNext \/ PeerClose \/ ListenNext \/ SendNext(Unary) \/ UnaryNext
SpecUnary == Init /\ [][NextUnary]_vars

NextStream ==
    LifespanNext \/ PeerClose \/ ListenNext \/ SendNext(Streams) \/ StreamNext
SpecStream == Init /\ [][NextStream]_vars

\* The event loop resumes generate_stream when its queue.get() has a
\* message or when the 30 s timer of wait_for fires.
StreamStep == \E s \in Streams : StreamPull(s) \/ StreamTimeout(s)
SpecStreamLive == SpecStream /\ WF_vars(StreamStep)

NextAuth ==
    LifespanNext \/ PeerClose \/ ListenNext \/ SendNext(Auths) \/ AuthNext
SpecAuth == Init /\ [][NextAuth]_vars

\* A wallet authentication that may be cancelled at any of its awaits.
NextAuthCancel == NextAuth \/ \E a \in Auths : AuthCancel(a)
SpecAuthCancel == Init /\ [][NextAuthCancel]_vars

\* A unary caller and a wallet authentication, with every behaviour of the
\* upstream: two send() calls, at the same time or one after the other.
NextTwo ==
    \/ LifespanNext
    \/ PeerClose
    \/ ListenNext
    \/ SendNext(Unary \cup Auths)
    \/ UnaryNext
    \/ AuthNext
SpecTwo == Init /\ [][NextTwo]_vars

\* A unary caller and a stream caller while the upstream sends no frame: it
\* accepts or refuses connections and closes sockets, so that send() can
\* fail in each of its ways and every wait runs into its timeout.
NextSilent ==
    \/ LifespanNext
    \/ PeerClose
    \/ ListenStart
    \/ ListenConnectOk
    \/ ListenConnectFail
    \/ ListenSleepDone
    \/ ListenRecvClosed
    \/ ListenCloseDone
    \/ ListenRecvError
    \/ SendNext(Unary \cup Streams)
    \/ \E u \in Unary : UnaryCallFromHttp(u)
    \/ \E u \in Unary : UnaryStart(u)
    \/ \E u \in Unary : UnaryTimeout(u)
    \/ \E u \in Unary : UnaryFinish(u)
    \/ \E s \in Streams : StreamStart(s)
    \/ \E s \in Streams : StreamTimeout(s)
    \/ \E s \in Streams : StreamBackgroundCleanup(s)
SpecSilent == Init /\ [][NextSilent]_vars

\* All callers at once, while the upstream accepts the handshake and keeps
\* the connection up and the server is not shut down: the steps the program
\* can take then.
NextUp ==
    \/ LifespanStartOk
    \/ ListenStart
    \/ ListenRecv
    \/ \E p \in Ids : SendWriteOk(p)
    \/ UnaryNext
    \/ StreamNext
    \/ AuthNext
SpecUp == Init /\ [][NextUp]_vars

\* The registry on its own: its operations in any order, with any id.
NextRegistry ==
    \/ \E rid \in Ids : RegisterCall(rid)
    \/ \E rid \in Unary \cup Streams : CreateQueueCall(rid)
    \/ \E rid \in Ids \cup {UnknownId} : UnregisterCall(rid)
    \/ \E rid \in Unary \cup Streams : CleanupQueueCall(rid)
    \/ \E f \in RegistryFrames : RouteCall(f)
SpecRegistry == Init /\ [][NextRegistry]_vars

\* The receive loop and the connection on their own, with start_listening
\* called any number of times.
NextLoop ==
    LifespanNext \/ PeerClose \/ ListenNext \/ StartListeningCall
SpecLoop == Init /\ [][NextLoop]_vars

\* The same, with callers that may be cancelled while they wait.
NextCancel == NextUp \/ CancelNext
SpecCancel == Init /\ [][NextCancel]_vars


\* ============================================================== claims
Last(q) == q[Len(q)]
IsPrefix(a, b) == Len(a) <= Len(b) /\ a = SubSeq(b, 1, Len(a))
WithoutTimeout(o) ==
    IF o # <<>> /\ Last(o) = TimeoutEvent THEN SubSeq(o, 1, Len(o) - 1) ELSE o

\* C1: whenever a frame is put on a channel, the channel is the one
\* registered for the frame's own requestId, the frame is appended to it,
\* and no other channel and no other id's registry entry changes in that
\* step.
C1_NoCrossTalk ==
    [][\A q \in Ids :
        Len(chan'[q]) > Len(chan[q]) =>
            LET f == Last(chan'[q]) IN
                /\ chan'[q] = Append(chan[q], f)
                /\ f.requestId \in Ids
                /\ listeners[f.requestId] = q
                /\ \A q2 \in Ids \ {q} : chan'[q2] = chan[q2]
                /\ \A r \in Ids \ {f.requestId} : listeners'[r] = listeners[r]
      ]_vars

\* Three ids registered at once, each with a frame delivered.
C1_Witness ==
    \A p \in Ids : listeners[p] # None /\ chan[listeners[p]] # <<>>

\* C2 (as claimed): when the receive loop has seen the connection closed
\* and its close() is over, and the server is not shutting down, the loop
\* goes on: it connects again or waits to.
C2_LoopSurvivesClose ==
    [][(lpc = "closing" /\ lpc' # "closing" /\ life = "serving")
          => lpc' \in {"connecting", "sleep", "recv"}]_vars

\* C3 (as claimed): a unary handler whose wait got no delivery ends with
\* the request timeout (408), and its id is no longer registered.
C3_TimeoutIs408AndUnregisters ==
    \A u \in Unary :
        (u \in registered /\ pc[u] = "done" /\ got[u] = NoFrame)
            => /\ result[u].kind = "HTTPException"
               /\ result[u].status = 408
               /\ listeners[u] = None

\* C4 (as claimed): no frame of a request is dropped for lack of a
\* registration once the request's frame has been handed to the socket.
C4_NoFrameMissed == missed = {}

\* C5 (as claimed): each failed connect() of the receive loop increments
\* the retry counter.
C5_FailedConnectCounts ==
    [][(lpc = "connecting" /\ lpc' = "sleep")
          => current_retry' = current_retry + 1]_vars

\* C6 (as claimed): at most one upstream socket is open at any time.
C6_OneConnection == Cardinality(openSocks) <= 1

\* C7 (as claimed): a unary handler whose wait got a code-200 frame returns
\* a completion with the frame's response and token count.
C7_CompletionReturned ==
    \A u \in Unary :
        (pc[u] = "done" /\ got[u] # NoFrame /\ got[u].code = 200)
            => /\ result[u].kind = "completion"
               /\ result[u].text = got[u].response
               /\ result[u].tokens = got[u].tokens_burned

\* C8: a stream whose channel received chunk c1, chunk c2 and then the
\* stream-end frame yields the chunk event of c1, the chunk event of c2 and
\* [DONE], in that order and nothing else (short of an idle timeout, which
\* ends it earlier); once [DONE] is out the sequence has ended and stays as
\* it is.
C8_TwoChunksThenDone ==
    \A s \in Streams : \A c1 \in Chunks, c2 \in Chunks :
        (/\ Len(delivered[s]) >= 3
         /\ delivered[s][1] = ChunkFrame(s, c1)
         /\ delivered[s][2] = ChunkFrame(s, c2)
         /\ delivered[s][3] = EndFrame(s))
        => LET want == << [event |-> "chunk", content |-> c1],
                          [event |-> "chunk", content |-> c2],
                          [event |-> "[DONE]", content |-> ""] >>
           IN /\ IsPrefix(WithoutTimeout(out[s]), want)
              /\ (pc[s] \in {"bg", "done"} /\ WithoutTimeout(out[s]) = out[s])
                    => out[s] = want
              /\ out[s] = want => pc[s] \in {"bg", "done"}

\* The stream has ended after the two chunks and [DONE].
C8_Witness ==
    \E s \in Streams :
        /\ pc[s] = "done"
        /\ delivered[s] = <<ChunkFrame(s, "Hel"), ChunkFrame(s, "lo"),
                            EndFrame(s)>>
        /\ out[s] = << [event |-> "chunk", content |-> "Hel"],
                       [event |-> "chunk", content |-> "lo"],
                       [event |-> "[DONE]", content |-> ""] >>

\* C9: a pull that ends with nothing delivered yields [TIMEOUT] and ends
\* the sequence; nothing is yielded after [TIMEOUT]; and once the handler's
\* cleanup has run the id is not registered.
C9_StreamTimeout ==
    [][\A s \in Streams :
        /\ (pc[s] = "pull" /\ chan[queues[s]] = <<>> /\ pc'[s] # "pull")
              => /\ out'[s] = Append(out[s], [event |-> "[TIMEOUT]",
                                              content |-> ""])
                 /\ pc'[s] = "bg"
        /\ (out[s] # <<>> /\ Last(out[s]).event = "[TIMEOUT]")
              => /\ out'[s] = out[s]
                 /\ pc'[s] \in {"bg", "done"}
        /\ (pc'[s] = "done" /\ out'[s] # <<>>
                /\ Last(out'[s]).event = "[TIMEOUT]")
              => listeners'[s] = None
      ]_vars

\* A stream that timed out after a chunk and has been cleaned up.
C9_Witness ==
    \E s \in Streams :
        /\ pc[s] = "done"
        /\ Len(out[s]) = 2
        /\ out[s][1].event = "chunk"
        /\ out[s][2].event = "[TIMEOUT]"
        /\ listeners[s] = None

\* C10 (as claimed): a request issued after the receive loop gave up at
\* max_retries does not try to connect or write, and changes no registry
\* entry.
C10_FailFastAfterGiveUp ==
    [][\A p \in Ids :
        (/\ lpc = "stopped"
         /\ current_retry >= max_retries
         /\ pc[p] = "idle"
         /\ pc'[p] # "idle")
        => /\ pc'[p] \notin {"s_connect", "s_write"}
           /\ listeners' = listeners
      ]_vars

\* C11 (as claimed): at most one caller is inside connection.send(message)
\* at any time; a second send() waits for the first write to finish.
C11_OneWriterAtATime ==
    Cardinality({p \in Ids : pc[p] = "s_write"}) <= 1

\* C12 (as claimed): once a cancelled handler is over (for a stream, once
\* its cleanup has run), its id is not in the registry.
C12_CancelUnregisters ==
    \A p \in cancelled : pc[p] = "done" => listeners[p] = None

\* C13 (as claimed): after a unary handler whose wait got a delivery has
\* finished, its id is neither in the registry nor in the manager's queue
\* map.
C13_CleanupAfterDelivery ==
    \A u \in Unary :
        (pc[u] = "done" /\ consumed[u] # <<>>)
            => listeners[u] = None /\ queues[u] = None

\* C14: register_listener called for an id that is registered returns
\* the queue the registry holds for it, and leaves the registry and every
\* queue's buffered messages as they were.
C14_RegisterIdempotent ==
    [][\A rid \in Ids :
        (/\ call'.n # call.n
         /\ call'.op = "register"
         /\ call'.rid = rid
         /\ listeners[rid] # None)
        => /\ call'.ret = listeners[rid]
           /\ listeners' = listeners
           /\ chan' = chan
      ]_vars

\* register_listener has just been called for an id that was registered
\* and whose queue holds a message.
C14_Witness ==
    /\ call.op = "register"
    /\ call.had
    /\ call.ret = listeners[call.rid]
    /\ chan[call.ret] # <<>>

\* C15: unregister_listener, called directly or through cleanup_queue,
\* returns normally, leaves the given id unregistered, and changes neither
\* another id's entry nor any queue; for an absent id it changes nothing.
C15_UnregisterFrame ==
    [][\A rid \in Ids \cup {UnknownId} :
        (/\ call'.n # call.n
         /\ call'.op = "unregister"
         /\ call'.rid = rid)
        => /\ call'.ret = None
           /\ rid \in Ids => listeners'[rid] = None
           /\ \A r \in Ids \ {rid} : listeners'[r] = listeners[r]
           /\ chan' = chan
           /\ ~call'.had => listeners' = listeners
      ]_vars

\* unregister_listener has just been called for an absent id while another
\* id is registered with a message buffered.
C15_Witness ==
    /\ call.op = "unregister"
    /\ ~call.had
    /\ \E r \in Ids \ {call.rid} :
          listeners[r] # None /\ chan[listeners[r]] # <<>>

\* C16: the frames a caller has consumed from its channel are, in order,
\* the first frames the receive loop put on that channel.
C16_ConsumedInOrder ==
    \A p \in Ids : IsPrefix(consumed[p], delivered[p])

\* A stream has consumed two different frames, received in that order.
C16_Witness ==
    \E s \in Streams :
        /\ Len(consumed[s]) >= 2
        /\ consumed[s][1] # consumed[s][2]
        /\ Len(delivered[s]) = 3

\* C17 (as claimed): every channel has a capacity and never holds more
\* undelivered messages than that; here, for any capacity below the number
\* of frames the upstream sends for one id while the consumer does not
\* read.
C17_ChannelBounded ==
    \A q \in Ids : Len(chan[q]) < MaxFrames

\* C18 (as claimed): an upstream failure frame (a code other than 200)
\* consumed by a stream is not yielded as a content chunk.
C18_StreamErrorSurfaced ==
    \A s \in Streams : \A i \in 1..Len(consumed[s]) :
        (consumed[s][i].code # 0 /\ consumed[s][i].code # 200)
            => out[s][i].event # "chunk"

\* C19: a stream sequence that has started ends: the generator yields a
\* terminal marker, [DONE] or [TIMEOUT], as its last event and stops,
\* whatever the upstream and the connection do; and a sequence never holds
\* more than one terminal marker.
TerminalEvents == {"[DONE]", "[TIMEOUT]"}

C19_StreamEnds ==
    /\ [](\A s \in Streams :
            Cardinality({i \in 1..Len(out[s]) :
                            out[s][i].event \in TerminalEvents}) <= 1)
    /\ \A s \in Streams :
          (pc[s] = "pull")
              ~> (/\ pc[s] \in {"bg", "done"}
                  /\ out[s] # <<>>
                  /\ Last(out[s]).event \in TerminalEvents)

\* A stream ended with [TIMEOUT] after the connection was lost and the
\* receive loop had stopped.
C19_Witness ==
    \E s \in Streams :
        /\ lpc = "stopped"
        /\ connection = NoSock
        /\ consumed[s] # <<>>
        /\ pc[s] \in {"bg", "done"}
        /\ Last(out[s]).event = "[TIMEOUT]"

\* C20: when the message a unary wait got has a code other than 200, the
\* wait raised HTTPException(500) with the frame's message text, and the
\* handler did not return a completion.
C20_UpstreamErrorIs500 ==
    \A u \in Unary :
        (consumed[u] # <<>> /\ consumed[u][1].code # 200)
            => /\ waited[u].kind = "HTTPException"
               /\ waited[u].status = 500
               /\ waited[u].text = consumed[u][1].message
               /\ result[u].kind # "completion"

\* A unary handler has finished after its wait got the failure frame.
C20_Witness ==
    \E u \in Unary :
        /\ pc[u] = "done"
        /\ consumed[u] = <<ErrFrame(u, "bad")>>
        /\ waited[u].status = 500

\* C21 (as claimed): when a close() that had a socket to close completes
\* (called by the shutdown, by the receive loop or by send()), no connection
\* is stored and no id is left in the registry.
C21_CloseReleasesRegistry ==
    [][((lpc = "closing" /\ lpc' # "closing")
          \/ (life = "closing" /\ life' = "down")
          \/ (\E p \in Ids : pc[p] = "s_close" /\ pc'[p] # "s_close"))
        => /\ connection' = NoSock
           /\ \A r \in Ids : listeners'[r] = None
      ]_vars

\* C22: a send() that has returned returned True or False; it called
\* connect() once if the manager was disconnected when it was called and not
\* at all otherwise; after a failed connect() or a failed write it returned
\* False, and True only after the write.
C22_SendReturnsFailure ==
    \A p \in Ids :
        /\ sendret[p].connects <= 1
        /\ sendret[p].why \notin {"none", "pending"}
              => /\ sendret[p].ret \in {"True", "False"}
                 /\ sendret[p].connects = IF sendret[p].disc THEN 1 ELSE 0
                 /\ sendret[p].why \in {"connect failed", "write failed"}
                       => sendret[p].ret = "False"
                 /\ sendret[p].ret = "True" => sendret[p].why = "written"

\* A send() that found the manager disconnected, connected, and whose write
\* then failed.
C22_Witness ==
    \E p \in Ids :
        /\ sendret[p].disc
        /\ sendret[p].connects = 1
        /\ sendret[p].why = "write failed"
        /\ sendret[p].ret = "False"

\* The steps in which a connect() called by the startup, by the receive
\* loop or by send() returns True, and those in which it returns False.
ConnectSucceeds ==
    \/ lpc = "connecting" /\ lpc' = "recv"
    \/ life = "init" /\ life' = "serving" /\ openSocks' # openSocks
    \/ \E p \in Ids : pc[p] = "s_connect" /\ pc'[p] = "s_write"

ConnectFails ==
    \/ lpc = "connecting" /\ lpc' = "sleep"
    \/ life = "init" /\ life' = "serving" /\ openSocks' = openSocks
    \/ \E p \in Ids : pc[p] = "s_connect"
                          /\ pc'[p] \notin {"s_connect", "s_write"}

\* C23: a connect() that succeeds leaves an open connection stored and the
\* retry counter at zero; a connect() that fails leaves the connection
\* field as it was (none, when it was called without one), opens nothing,
\* and leaves the retry counter alone; neither changes the registry.
C23_ConnectEffect ==
    [][/\ ConnectSucceeds
            => /\ connection' \in openSocks'
               /\ connection' \notin openSocks
               /\ current_retry' = 0
               /\ listeners' = listeners
       /\ ConnectFails
            => /\ connection' = connection
               /\ openSocks' = openSocks
               /\ current_retry' = current_retry
               /\ listeners' = listeners
      ]_vars

\* A connect() called by send() without a connection has failed, with the
\* request's id registered and the retry counter above zero.
C23_Witness ==
    \E p \in Unary :
        /\ sendret[p].why = "connect failed"
        /\ connection = NoSock
        /\ listeners[p] # None
        /\ current_retry > 0

\* C24: the step that puts a stream-end frame on the channel of its id
\* also removes the id from the registry, and no frame is put on that
\* channel after the stream-end frame.
C24_StreamEndUnregisters ==
    /\ [][\A q \in Ids :
            (Len(chan'[q]) > Len(chan[q]) /\ Last(chan'[q]).isStreamEnd)
                => /\ listeners[Last(chan'[q]).requestId] = q
                   /\ listeners'[Last(chan'[q]).requestId] = None
          ]_vars
    /\ [](\A q \in Ids : \A i \in 1..Len(delivered[q]) :
              delivered[q][i].isStreamEnd => i = Len(delivered[q]))

\* The stream-end frame is on the channel after a chunk, not yet consumed,
\* and the id is already out of the registry.
C24_Witness ==
    \E s \in Streams :
        /\ Len(delivered[s]) = 2
        /\ Last(delivered[s]) = EndFrame(s)
        /\ pc[s] = "pull"
        /\ Last(chan[queues[s]]) = EndFrame(s)
        /\ listeners[s] = None

\* C25: _route_message called with a JSON frame whose requestId has no
\* entry in the registry returns normally and leaves the registry and
\* every channel as they were.
C25_UnknownIdDropped ==
    [][\A rid \in Ids \cup {UnknownId} :
        (/\ call'.n # call.n
         /\ call'.op = "route"
         /\ call'.json
         /\ call'.rid = rid
         /\ ~call'.had)
        => /\ call'.ret = None
           /\ listeners' = listeners
           /\ chan' = chan
           /\ delivered' = delivered
      ]_vars

\* A frame for a stream id that was unregistered by its stream-end frame
\* has just been routed, while another id is registered.
C25_Witness ==
    /\ call.op = "route"
    /\ call.json
    /\ call.rid \in Streams
    /\ ~call.had
    /\ delivered[call.rid] # <<>>
    /\ Last(delivered[call.rid]).isStreamEnd
    /\ \E r \in Ids : listeners[r] # None

\* C26: _route_message called with a message that is not JSON, or with a
\* JSON message without requestId, returns normally and leaves the registry
\* and every channel as they were.
C26_MalformedDropped ==
    [][(/\ call'.n # call.n
        /\ call'.op = "route"
        /\ (~call'.json \/ call'.rid = None))
        => /\ call'.ret = None
           /\ listeners' = listeners
           /\ chan' = chan
           /\ delivered' = delivered
      ]_vars

\* A text that is not JSON, naming a registered id, has just been routed.
C26_Witness ==
    /\ call.op = "route"
    /\ ~call.json
    /\ call.had
    /\ listeners[call.rid] # None

\* The steps of an unexpected disconnection: the upstream closes a socket,
\* the receive loop sees its connection closed and closes it, a write of
\* send() fails and send() closes the connection.
DisconnectStep ==
    \/ openSocks' # openSocks /\ openSocks' \subseteq openSocks
    \/ lpc = "recv" /\ lsock \notin openSocks /\ lpc' # "recv"
    \/ lpc = "closing" /\ lpc' # "closing"
    \/ \E p \in Ids : pc[p] = "s_write" /\ psock[p] \notin openSocks
                          /\ pc'[p] # "s_write"
    \/ \E p \in Ids : pc[p] = "s_close" /\ pc'[p] # "s_close"

\* C27: a step of an unexpected disconnection changes no registry entry
\* and no channel and leaves a pending unary wait pending; a unary wait
\* ends only by its own timeout or by a delivery.
C27_DisconnectLeavesRegistry ==
    [][/\ DisconnectStep
            => /\ listeners' = listeners
               /\ chan' = chan
               /\ \A u \in Unary :
                     pc[u] = "wait"
                         => /\ pc'[u] = "wait"
                            /\ result'[u] = result[u]
                            /\ waited'[u] = waited[u]
       /\ \A u \in Unary :
             (pc[u] = "wait" /\ pc'[u] # "wait")
                 => /\ pc'[u] = "cancel"
                    /\ \/ waited'[u].status = 408 /\ chan[queues[u]] = <<>>
                       \/ consumed'[u] = Append(consumed[u],
                                                Head(chan[queues[u]]))
      ]_vars

\* A unary wait is still pending, with its id registered, after the
\* receive loop saw the connection closed, closed it and stopped.
C27_Witness ==
    \E u \in Unary :
        /\ pc[u] = "wait"
        /\ listeners[u] # None
        /\ lpc = "stopped"
        /\ connection = NoSock
        /\ openSocks = {}
        /\ current_retry = 0

\* C28: at most one _listen task is ever created, however often
\* start_listening is called, and while the task has not been created no
\* receive loop runs.
C28_OneListenTask ==
    /\ listen_tasks <= 1
    /\ listen_tasks = 0 => lpc = "none"
    /\ listen_tasks = (IF task THEN 1 ELSE 0)

\* start_listening has been called again after the loop it created had
\* stopped.
C28_Witness ==
    /\ call.op = "start_listening"
    /\ lpc = "stopped"
    /\ ~running
    /\ listen_tasks = 1

\* A send() has returned after its socket write raised.
WriteFailed == \E p \in Ids : sendret[p].why = "write failed"

\* C29 (as claimed): once a send() has returned after its write raised, the
\* receive loop routes no further frame to a channel.
C29_NoFrameAfterWriteFailure ==
    [][WriteFailed => delivered' = delivered]_vars

\* C29 (amended): a send() whose write raised returns with no connection
\* stored and running false; running stays false from then on; and a frame
\* the receive loop still routes after that is its last: the loop test that
\* follows ends the loop.
C29_LoopEndsAfterWriteFailure ==
    /\ [][\A p \in Ids :
            (sendret[p].why # "write failed"
                /\ sendret'[p].why = "write failed")
            => connection' = NoSock /\ ~running']_vars
    /\ [](WriteFailed => ~running)
    /\ [][(WriteFailed /\ delivered' # delivered) => lpc' = "stopped"]_vars
    /\ [][(WriteFailed /\ lpc # lpc') => lpc' # "start"]_vars

\* After a send() whose write raised, the receive loop has stopped and a
\* later send() has connected again and written its frame.
C29_Witness ==
    \E p \in Ids : \E q \in Ids \ {p} :
        /\ sendret[p].why = "write failed"
        /\ lpc = "stopped"
        /\ sendret[q].disc
        /\ sendret[q].connects = 1
        /\ sendret[q].ret = "True"
        /\ connection \in openSocks

C31_AuthenticateWallet ==
    /\ [](\A a \in Auths :
            result[a].kind = "True"
            => /\ Len(consumed[a]) = 1
               /\ consumed[a][1].requestId = a
               /\ consumed[a][1].code = 200
               /\ consumed[a][1].json
               /\ delivered[a] # <<>>
               /\ consumed[a][1] = delivered[a][1])
    /\ [](\A a \in Auths : pc[a] = "done" => listeners[a] = None)
    /\ [](\A a \in Auths :
            pc[a] = "done"
            => IF a \in cancelled THEN result[a].kind = "CancelledError"
               ELSE result[a].kind \in {"True", "False"})
    /\ [][\A a \in Auths :
            (result[a] = NoResult /\ result'[a].kind = "False")
            => \/ pc[a] = "wait" /\ chan[queues[a]] = <<>>
               \/ pc[a] = "wait" /\ chan[queues[a]][1].code # 200]_vars

\* authenticate_wallet has registered its listener, taken the code-200
\* frame of its own request and returned True, and its id is unregistered.
C31_Witness ==
    \E a \in Auths :
        /\ pc[a] = "done"
        /\ a \in registered
        /\ result[a].kind = "True"
        /\ Len(consumed[a]) = 1
        /\ consumed[a][1].requestId = a
        /\ consumed[a][1].code = 200
        /\ listeners[a] = None

\* What a step of the receive loop that handles an error other than a
\* closed connection looks like: the loop leaves recv() on a socket that is
\* still open, for the sleep before the next attempt or for good.
RecvErrorStep ==
    /\ lpc = "recv"
    /\ lsock \in openSocks
    /\ lpc' \in {"sleep", "stopped"}
    /\ lsock' = NoSock

\* C32: the retry counter is always between 0 and max_retries; it grows
\* only by one, and only when the receive loop handles an error that is not
\* a closed connection; every successful connect() and every frame routed
\* to a channel leave it at zero; and the step that brings it to
\* max_retries stops the loop, which is stopped whenever the counter
\* equals max_retries.
C32_RetryCounter ==
    /\ [](current_retry \in 0..max_retries)
    /\ [][current_retry' > current_retry
            => current_retry' = current_retry + 1 /\ RecvErrorStep]_vars
    /\ [][ConnectSucceeds => current_retry' = 0]_vars
    /\ [][delivered' # delivered => current_retry' = 0]_vars
    /\ [][(current_retry' = max_retries /\ current_retry # max_retries)
            => lpc' = "stopped" /\ ~running']_vars
    /\ [](current_retry = max_retries => lpc = "stopped")

\* The receive loop has handled max_retries errors in a row and stopped.
C32_Witness ==
    /\ current_retry = max_retries
    /\ lpc = "stopped"
    /\ ~running

====
